---- MODULE Spec2Model ----
(***************************************************************************)
(* Model of dummy-controller.py: a single-threaded HTTPServer whose        *)
(* request handler ConfigController serves GET /health, GET /metrics and   *)
(* POST /validate, /send-config, /rollout-status.                          *)
(*                                                                         *)
(* One connection is handled at a time (HTTPServer.serve_forever); the     *)
(* two time.sleep calls are the only places where a handler can be seen    *)
(* "in progress", so they are the only intermediate control points.        *)
(* random.* calls are nondeterministic choices.  A write to the client     *)
(* (end_headers flush, wfile.write) raises once the client has gone away,  *)
(* and keeps raising from then on.                                         *)
(***************************************************************************)
EXTENDS Naturals, Sequences, FiniteSets, TLC

VARIABLES pending, pc, cur, last

vars == <<pending, pc, cur, last>>

-----------------------------------------------------------------------------
(* Bounds of the model *)

\* connections waiting in the listen queue of the server socket
MaxPending == 2
\* longest configVersion string a client sends
MaxLen == 3

(* Program constants *)

\* len(config_version) < 3
MinVersionLen == 3
\* "totalSteps": 3 and random.randint(1, 3)
TotalSteps == 3
\* "totalDevices": 10 and random.randint(1, 10)
TotalDevices == 10

-----------------------------------------------------------------------------
(* JSON values a request body can carry *)

Chars == {"v", "1"}

JAbsent == [t |-> "absent", s |-> <<>>, n |-> 0]
JNull == [t |-> "null", s |-> <<>>, n |-> 0]
JNum(k) == [t |-> "num", s |-> <<>>, n |-> k]
JStr(q) == [t |-> "str", s |-> q, n |-> 0]

Strings == UNION {[1..k -> Chars] : k \in 0..MaxLen}

VersionValues == {JAbsent, JNull, JNum(0), JNum(7)} \cup {JStr(q) : q \in Strings}

\* key not present in the dict
MISSING == "<missing>"
DeviceIds == {"dev-42"}
RolloutIds == {"r-1", "r-2"}
ConfigNames == {"net-profile-1"}

CfgAbsent == [t |-> "absent", name |-> MISSING]
CfgNotDict == [t |-> "notdict", name |-> MISSING]
CfgDict(nm) == [t |-> "dict", name |-> nm]
ConfigValues == {CfgAbsent, CfgNotDict} \cup {CfgDict(nm) : nm \in ConfigNames \cup {MISSING}}

\* kind: "dict" (a JSON object), "notdict" (parsable, but no object),
\* "unparsable" (json.loads raises), "nolength" (no Content-Length header)
Body(kind, cv, dev, cfg, rid) ==
    [kind |-> kind, configVersion |-> cv, deviceId |-> dev, config |-> cfg, rolloutId |-> rid]

NoFields(kind) == Body(kind, JAbsent, MISSING, CfgAbsent, MISSING)

BrokenBodies == {NoFields("notdict"), NoFields("unparsable"), NoFields("nolength")}

Req(m, p, b) == [method |-> m, path |-> p, body |-> b]

ValidateRequests ==
    {Req("POST", "/validate", b) :
        b \in {Body("dict", cv, MISSING, CfgAbsent, MISSING) : cv \in VersionValues}
              \cup BrokenBodies}

SendConfigRequests ==
    {Req("POST", "/send-config", b) :
        b \in {Body("dict", JAbsent, d, c, MISSING) :
                  d \in DeviceIds \cup {MISSING}, c \in ConfigValues}
              \cup BrokenBodies}

RolloutStatusRequests ==
    {Req("POST", "/rollout-status", b) :
        b \in {Body("dict", JAbsent, MISSING, CfgAbsent, r) : r \in RolloutIds \cup {MISSING}}
              \cup BrokenBodies}

OtherPostRequests == {Req("POST", "/other", NoFields("dict"))}

GetRequests == {Req("GET", p, NoFields("none")) : p \in {"/health", "/metrics", "/other"}}

NoReq == Req("none", "none", NoFields("none"))

-----------------------------------------------------------------------------
(* The response side of one connection *)

\* calls: the codes passed to send_response, in order
\* buf:   status lines held in the headers buffer, not yet written
\* wire:  what reached the client: flushed header blocks and bodies
\* left:  writes that still succeed before the client goes away
\* raised/exc: an exception is propagating, and its message
NewConn(ok) ==
    [calls |-> <<>>, buf |-> <<>>, wire |-> <<>>, left |-> ok,
     raised |-> FALSE, exc |-> "none"]

NoBody == [none |-> TRUE]

HeadChunk(codes) == [k |-> "head", codes |-> codes, body |-> NoBody]
BodyChunk(b) == [k |-> "body", codes |-> <<>>, body |-> b]

Raise(h, e) == IF h.raised THEN h ELSE [h EXCEPT !.raised = TRUE, !.exc = e]

send_response(h, code) ==
    IF h.raised THEN h
    ELSE [h EXCEPT !.calls = Append(@, code), !.buf = Append(@, code)]

\* end_headers flushes the headers buffer to the client; the buffer is
\* cleared only after a successful write
end_headers(h) ==
    IF h.raised THEN h
    ELSE IF h.left = 0 THEN Raise(h, "BrokenPipeError")
    ELSE [h EXCEPT !.wire = Append(@, HeadChunk(h.buf)), !.buf = <<>>, !.left = @ - 1]

wfile_write(h, b) ==
    IF h.raised THEN h
    ELSE IF h.left = 0 THEN Raise(h, "BrokenPipeError")
    ELSE [h EXCEPT !.wire = Append(@, BodyChunk(b)), !.left = @ - 1]

\* the number of writes that succeed on a connection: a response is at most
\* one header block and one body
WriteBudgets == {0, 1, 2}

ErrorBody(msg) == [status |-> "error", message |-> msg]

\* except Exception as e: send_response(500); ...; wfile.write(error body)
except_Exception(h) ==
    IF ~h.raised THEN h
    ELSE LET h0 == [h EXCEPT !.raised = FALSE]
         IN  wfile_write(end_headers(send_response(h0, 500)), ErrorBody(h.exc))

-----------------------------------------------------------------------------
(* Request parsing: int(headers['Content-Length']), rfile.read, json.loads, *)
(* and the first data.get                                                   *)

ParseFault(body) ==
    CASE body.kind = "nolength" -> "TypeError"
      [] body.kind = "unparsable" -> "JSONDecodeError"
      [] body.kind = "notdict" -> "AttributeError"
      [] OTHER -> "none"

Unknown == JStr(<<"u", "n", "k", "n", "o", "w", "n">>)

GetVersion(data, default) ==
    IF data.configVersion.t = "absent" THEN default ELSE data.configVersion

GetId(v, default) == IF v = MISSING THEN default ELSE v

-----------------------------------------------------------------------------
(* What is recorded of a handled request *)

\* outcome: "none", or what validate_config / send_config_to_device returned
\*          ("accepted", "rejected", "raised", "delivered", "undelivered")
\* policy:  the value random.random() < rate took for this request
\* escaped: an exception left the handler (to socketserver's handle_error)
Result(r, h, outcome, policy) ==
    [req |-> r, calls |-> h.calls, wire |-> h.wire, escaped |-> h.raised,
     outcome |-> outcome, policy |-> policy]

NoResult == Result(NoReq, NewConn(0), "none", FALSE)

-----------------------------------------------------------------------------
(* validate_config *)

Returned(b) == [raised |-> FALSE, exc |-> "none", value |-> b]
Raised(e) == [raised |-> TRUE, exc |-> e, value |-> FALSE]

\* Python truth value of a JSON value: None, 0 and "" are false
Falsy(v) ==
    \/ v.t = "null"
    \/ v.t = "num" /\ v.n = 0
    \/ v.t = "str" /\ Len(v.s) = 0

\* the length check of the mutant accepts two-character versions
validate_config_short(data, p) ==
    LET config_version == GetVersion(data, JStr(<<>>))
    IN  IF Falsy(config_version) THEN Returned(FALSE)
        ELSE IF config_version.t # "str" THEN Raised("TypeError")
        ELSE IF Len(config_version.s) < MinVersionLen - 1 THEN Returned(FALSE)
        ELSE Returned(p)

\* p is the value of random.random() < 0.9; len() of a number raises
validate_config(data, p) ==
    LET config_version == GetVersion(data, JStr(<<>>))
    IN  IF Falsy(config_version) THEN Returned(FALSE)
        ELSE IF config_version.t # "str" THEN Raised("TypeError")
        ELSE IF Len(config_version.s) < MinVersionLen THEN Returned(FALSE)
        ELSE Returned(p)

ValidationBody(status, message, data) ==
    [status |-> status, message |-> message,
     configVersion |-> GetVersion(data, Unknown)]

\* handle_validation from the call of validate_config to its end
validation_response(data, p, ok) ==
    LET success == validate_config(data, p)
        h0 == NewConn(ok)
        h1 == IF success.raised THEN Raise(h0, success.exc)
              ELSE IF success.value
                   THEN wfile_write(end_headers(send_response(h0, 200)),
                            ValidationBody("success", "Configuration validation passed", data))
                   ELSE wfile_write(end_headers(send_response(h0, 400)),
                            ValidationBody("failure", "Configuration validation failed", data))
    IN  except_Exception(h1)

ValidationOutcome(data, p) ==
    LET success == validate_config(data, p)
    IN  IF success.raised THEN "raised"
        ELSE IF success.value THEN "accepted" ELSE "rejected"

-----------------------------------------------------------------------------
(* send_config_to_device *)

\* draw is the value of random.random() < 0.95
send_config_to_device(device_id, config_data, draw) == draw

GetName(config_data) == GetId(config_data.name, "unknown")

\* the mutant answers a failed delivery like a successful one
send_config_response_swapped(data, success, ok) ==
    LET device_id == GetId(data.deviceId, "unknown")
        config_data == IF data.config.t = "absent" THEN CfgDict(MISSING) ELSE data.config
        h0 == NewConn(ok)
        h1 == wfile_write(end_headers(send_response(h0, 200)),
                  [status |-> "success",
                   message |-> <<"Configuration sent to device", device_id>>,
                   deviceId |-> device_id,
                   configName |-> GetName(config_data)])
    IN  except_Exception(h1)

\* handle_send_config from the return of send_config_to_device to its end
send_config_response(data, success, ok) ==
    LET device_id == GetId(data.deviceId, "unknown")
        config_data == IF data.config.t = "absent" THEN CfgDict(MISSING) ELSE data.config
        h0 == NewConn(ok)
        h1 == IF success
              THEN wfile_write(end_headers(send_response(h0, 200)),
                       [status |-> "success",
                        message |-> <<"Configuration sent to device", device_id>>,
                        deviceId |-> device_id,
                        configName |-> GetName(config_data)])
              ELSE wfile_write(end_headers(send_response(h0, 500)),
                       [status |-> "failure",
                        message |-> <<"Failed to send config to device", device_id>>,
                        deviceId |-> device_id])
    IN  except_Exception(h1)

\* the faults of handle_send_config before the call of send_config_to_device:
\* parsing, and config_data.get on a config that is no object
SendConfigFault(body) ==
    IF ParseFault(body) # "none" THEN ParseFault(body)
    ELSE IF body.config.t = "notdict" THEN "AttributeError"
    ELSE "none"

-----------------------------------------------------------------------------
(* get_rollout_status *)

Phases == {"Progressing", "Completed", "Paused"}

RolloutRecord(rollout_id, phase, step, devices) ==
    [rolloutId |-> rollout_id, phase |-> phase, currentStep |-> step,
     totalSteps |-> TotalSteps, completedDevices |-> devices,
     totalDevices |-> TotalDevices, message |-> <<"Rollout", rollout_id, "is progressing">>]

\* the mutant draws the step from 0..3
get_rollout_status_from_zero(rollout_id) ==
    {RolloutRecord(rollout_id, ph, st, dv) :
        ph \in Phases, st \in 0..TotalSteps, dv \in 1..TotalDevices}

\* the records one call can return: random.choice and two random.randint
get_rollout_status(rollout_id) ==
    {RolloutRecord(rollout_id, ph, st, dv) :
        ph \in Phases, st \in 1..TotalSteps, dv \in 1..TotalDevices}

rollout_status_response(status, ok) ==
    except_Exception(wfile_write(end_headers(send_response(NewConn(ok), 200)), status))

-----------------------------------------------------------------------------
(* do_GET *)

HealthBody == [status |-> "healthy", service |-> "config-controller"]

\* the gauges are random.uniform / random.randint draws; only their ranges are kept
MetricsBody ==
    [cpu_usage |-> <<10, 80>>, memory_usage |-> <<20, 90>>, response_time |-> <<100, 500>>,
     error_rate |-> <<0, 5>>, throughput |-> <<1000, 5000>>,
     active_rollouts |-> <<1, 10>>, devices_configured |-> <<50, 200>>]

get_response(path, ok) ==
    CASE path = "/health" -> wfile_write(end_headers(send_response(NewConn(ok), 200)), HealthBody)
      [] path = "/metrics" -> wfile_write(end_headers(send_response(NewConn(ok), 200)), MetricsBody)
      [] OTHER -> end_headers(send_response(NewConn(ok), 404))

not_found_response(ok) == end_headers(send_response(NewConn(ok), 404))

-----------------------------------------------------------------------------
(* The server *)

Init ==
    /\ pending = 0
    /\ pc = "idle"
    /\ cur = NoReq
    /\ last = NoResult

\* a client connects; the connection waits in the listen queue
Arrive ==
    /\ pending < MaxPending
    /\ pending' = pending + 1
    /\ UNCHANGED <<pc, cur, last>>

\* serve_forever takes the next connection only between two requests
Accept ==
    /\ pc = "idle"
    /\ pending > 0
    /\ pending' = pending - 1

Finish(result) ==
    /\ last' = result
    /\ pc' = "idle"
    /\ cur' = NoReq

do_GET ==
    \E r \in GetRequests, ok \in WriteBudgets :
        /\ Accept
        /\ Finish(Result(r, get_response(r.path, ok), "none", FALSE))

do_POST_not_found ==
    \E r \in OtherPostRequests, ok \in WriteBudgets :
        /\ Accept
        /\ Finish(Result(r, not_found_response(ok), "none", FALSE))

\* handle_validation up to time.sleep(1) in validate_config
handle_validation ==
    \E r \in ValidateRequests :
        /\ Accept
        /\ IF ParseFault(r.body) # "none"
           THEN \E ok \in WriteBudgets :
                    Finish(Result(r, except_Exception(Raise(NewConn(ok), ParseFault(r.body))),
                                  "none", FALSE))
           ELSE /\ pc' = "validate_config"
                /\ cur' = r
                /\ UNCHANGED last

\* validate_config returns and handle_validation answers
validate_config_return ==
    /\ pc = "validate_config"
    /\ \E p \in BOOLEAN, ok \in WriteBudgets :
           Finish(Result(cur, validation_response(cur.body, p, ok),
                         ValidationOutcome(cur.body, p), p))
    /\ UNCHANGED pending

\* handle_send_config up to time.sleep(2) in send_config_to_device
handle_send_config ==
    \E r \in SendConfigRequests :
        /\ Accept
        /\ IF SendConfigFault(r.body) # "none"
           THEN \E ok \in WriteBudgets :
                    Finish(Result(r, except_Exception(Raise(NewConn(ok), SendConfigFault(r.body))),
                                  "none", FALSE))
           ELSE /\ pc' = "send_config_to_device"
                /\ cur' = r
                /\ UNCHANGED last

\* send_config_to_device returns and handle_send_config answers
send_config_to_device_return ==
    /\ pc = "send_config_to_device"
    /\ \E draw \in BOOLEAN, ok \in WriteBudgets :
           LET device_id == GetId(cur.body.deviceId, "unknown")
               success == send_config_to_device(device_id, cur.body.config, draw)
           IN  Finish(Result(cur, send_config_response(cur.body, success, ok),
                             IF success THEN "delivered" ELSE "undelivered", draw))
    /\ UNCHANGED pending

handle_rollout_status ==
    \E r \in RolloutStatusRequests, ok \in WriteBudgets :
        /\ Accept
        /\ IF ParseFault(r.body) # "none"
           THEN Finish(Result(r, except_Exception(Raise(NewConn(ok), ParseFault(r.body))),
                              "none", FALSE))
           ELSE \E status \in get_rollout_status(GetId(r.body.rolloutId, "unknown")) :
                    Finish(Result(r, rollout_status_response(status, ok), "none", FALSE))

do_POST ==
    \/ handle_validation
    \/ handle_send_config
    \/ handle_rollout_status
    \/ do_POST_not_found

Next ==
    \/ Arrive
    \/ do_GET
    \/ do_POST
    \/ validate_config_return
    \/ send_config_to_device_return

Spec == Init /\ [][Next]_vars

-----------------------------------------------------------------------------
(* Reading a recorded result *)

Answered(res, path) == res.req.method = "POST" /\ res.req.path = path

\* a header block and a body reached the client
Complete(res) == Len(res.wire) = 2

HeadCodes(res) == res.wire[1].codes

Sent(res) == res.wire[2].body

HasStatus(res, st) ==
    /\ Complete(res)
    /\ "status" \in DOMAIN Sent(res)
    /\ Sent(res).status = st

\* the client received a rollout record
RecordReturned(res) ==
    /\ Answered(res, "/rollout-status")
    /\ Complete(res)
    /\ "rolloutId" \in DOMAIN Sent(res)

-----------------------------------------------------------------------------
(* C1: validate rejects every payload whose configVersion is absent, empty *)
(* or shorter than 3, whatever the acceptance policy draws, and accepts a  *)
(* payload whose configVersion has length >= 3 exactly when the policy     *)
(* draws true; the answer sent carries that verdict.                       *)
C1_VerdictIsStructureAndPolicy ==
    (Answered(last, "/validate") /\ last.req.body.kind = "dict") =>
        LET cv == last.req.body.configVersion
            eligible == cv.t = "str" /\ Len(cv.s) >= 3
        IN  /\ cv.t \in {"absent", "str"} => last.outcome \in {"accepted", "rejected"}
            /\ last.outcome # "raised" =>
                   /\ last.outcome = "accepted" <=> (eligible /\ last.policy)
                   /\ last.outcome = "rejected" <=> ~(eligible /\ last.policy)
            /\ HasStatus(last, "success") => (eligible /\ last.policy)
            /\ HasStatus(last, "failure") => ~(eligible /\ last.policy)

\* a two-character configVersion was rejected although the policy drew true
C1_Witness ==
    /\ Answered(last, "/validate")
    /\ last.req.body.configVersion.t = "str"
    /\ Len(last.req.body.configVersion.s) = 2
    /\ last.policy
    /\ last.outcome = "rejected"
    /\ HasStatus(last, "failure")

(* C2: every POST /validate is answered, no fault leaves the handler, and  *)
(* the answer is 200/success when accepted, 400/failure when rejected and  *)
(* 500/error with the fault's message on a fault.                          *)
C2_ValidateNeverRaises ==
    Answered(last, "/validate") =>
        /\ ~last.escaped
        /\ Complete(last)
        /\ \/ HasStatus(last, "success") /\ HeadCodes(last) = <<200>>
              /\ last.outcome = "accepted"
           \/ HasStatus(last, "failure") /\ HeadCodes(last) = <<400>>
              /\ last.outcome = "rejected"
           \/ HasStatus(last, "error") /\ HeadCodes(last) = <<500>>
              /\ last.outcome \in {"none", "raised"}

(* C3: a POST /send-config with a parsable body is answered by the         *)
(* delivery outcome: delivered gives 200/success with deviceId and         *)
(* configName, not delivered gives 500/failure with the requested          *)
(* deviceId, a fault gives 500/error; a failed delivery is never reported  *)
(* as success or error.                                                    *)
C3_SendConfigFollowsDelivery ==
    (Answered(last, "/send-config") /\ last.req.body.kind \in {"dict", "notdict"}) =>
        LET device == IF last.req.body.deviceId = MISSING THEN "unknown"
                      ELSE last.req.body.deviceId
            name == IF last.req.body.config.name = MISSING THEN "unknown"
                    ELSE last.req.body.config.name
            faulted == \/ last.req.body.kind = "notdict"
                       \/ last.req.body.config.t = "notdict"
        IN  /\ faulted <=> last.outcome = "none"
            /\ ~faulted => (last.outcome = "delivered" <=> last.policy)
            /\ ~last.escaped => Complete(last) /\ Len(last.calls) = 1
            /\ Complete(last) =>
                   /\ HasStatus(last, "success") <=> last.outcome = "delivered"
                   /\ HasStatus(last, "failure") <=> last.outcome = "undelivered"
                   /\ HasStatus(last, "error") <=> faulted
                   /\ HasStatus(last, "success") =>
                          /\ HeadCodes(last) = <<200>>
                          /\ Sent(last).deviceId = device
                          /\ Sent(last).configName = name
                   /\ HasStatus(last, "failure") =>
                          /\ HeadCodes(last) = <<500>>
                          /\ Sent(last).deviceId = device
                   /\ HasStatus(last, "error") => HeadCodes(last) = <<500>>

\* the delivery to dev-42 failed and was answered 500/failure for dev-42
C3_Witness ==
    /\ Answered(last, "/send-config")
    /\ last.req.body.deviceId = "dev-42"
    /\ last.req.body.config.name = "net-profile-1"
    /\ last.outcome = "undelivered"
    /\ HasStatus(last, "failure")
    /\ HeadCodes(last) = <<500>>
    /\ Sent(last).deviceId = "dev-42"

(* C4: two status queries for the same rolloutId with nothing between them *)
(* return the same record.                                                 *)
C4_GetStatusIdempotent ==
    [][(RecordReturned(last) /\ RecordReturned(last')
        /\ Sent(last').rolloutId = Sent(last).rolloutId)
       => Sent(last') = Sent(last)]_vars

(* C5: a reported record has phase Completed only with currentStep equal   *)
(* to totalSteps and completedDevices equal to totalDevices.               *)
C5_CompletedOnlyWhenDone ==
    (RecordReturned(last) /\ Sent(last).phase = "Completed") =>
        /\ Sent(last).currentStep = Sent(last).totalSteps
        /\ Sent(last).completedDevices = Sent(last).totalDevices

(* C6: while a request is inside the latency window of validate_config or  *)
(* send_config_to_device, a request that has arrived can be handled and    *)
(* answered.                                                               *)
C6_LatencyDoesNotBlock ==
    (pc \in {"validate_config", "send_config_to_device"} /\ pending > 0) =>
        ENABLED (do_GET \/ do_POST)

(* C7: the currentStep and completedDevices reported for a rolloutId by    *)
(* successive status queries never decrease.                               *)
C7_ProgressNeverDecreases ==
    [][(RecordReturned(last) /\ RecordReturned(last')
        /\ Sent(last').rolloutId = Sent(last).rolloutId)
       => /\ Sent(last').currentStep >= Sent(last).currentStep
          /\ Sent(last').completedDevices >= Sent(last).completedDevices]_vars

(* C8: malformed input on a POST endpoint (unparsable body, absent         *)
(* configVersion, absent deviceId) is answered 400, never like an internal *)
(* fault (500/error); a request without deviceId is never dispatched and   *)
(* never answered with success.                                            *)
C8_ClientInputErrorIs400 ==
    LET b == last.req.body
        malformed ==
            \/ last.req.method = "POST" /\ b.kind \in {"unparsable", "nolength"}
            \/ Answered(last, "/validate") /\ b.kind = "dict" /\ b.configVersion.t = "absent"
            \/ Answered(last, "/send-config") /\ b.kind = "dict" /\ b.deviceId = MISSING
    IN  (malformed /\ last.req.path # "/other") =>
            /\ Complete(last) => HeadCodes(last) = <<400>>
            /\ ~HasStatus(last, "error")
            /\ ~HasStatus(last, "success")
            /\ last.outcome \notin {"delivered", "undelivered"}

(* C9: a record returned for POST /rollout-status comes with 200, carries  *)
(* the requested rolloutId, totalSteps 3, totalDevices 10, one of the      *)
(* three phases, 1 <= currentStep <= totalSteps and                        *)
(* 1 <= completedDevices <= totalDevices; a parsable object body whose     *)
(* client stays connected gets such a record.                              *)
C9_RecordWellFormed ==
    /\ RecordReturned(last) =>
           /\ last.calls = <<200>>
           /\ HeadCodes(last) = <<200>>
           /\ last.req.body.kind = "dict"
           /\ last.req.body.rolloutId # MISSING =>
                  Sent(last).rolloutId = last.req.body.rolloutId
           /\ Sent(last).totalSteps = 3
           /\ Sent(last).totalDevices = 10
           /\ Sent(last).phase \in {"Progressing", "Paused", "Completed"}
           /\ 1 <= Sent(last).currentStep
           /\ Sent(last).currentStep <= Sent(last).totalSteps
           /\ 1 <= Sent(last).completedDevices
           /\ Sent(last).completedDevices <= Sent(last).totalDevices
    /\ (Answered(last, "/rollout-status") /\ last.req.body.kind = "dict" /\ ~last.escaped)
           => RecordReturned(last)

\* the status of r-1 was asked and a record for r-1 came back
C9_Witness ==
    /\ RecordReturned(last)
    /\ last.req.body.rolloutId = "r-1"
    /\ Sent(last).rolloutId = "r-1"
    /\ Sent(last).phase = "Paused"
    /\ Sent(last).currentStep = 3

(* C10: each handled POST request gives exactly one response: one status   *)
(* line, whose code agrees with the body sent (200 with success or a       *)
(* record, 400 with failure, 500 with failure or error).                   *)
C10_ExactlyOneResponse ==
    (\E path \in {"/validate", "/send-config", "/rollout-status"} : Answered(last, path)) =>
        /\ Len(last.calls) = 1
        /\ Complete(last) =>
               /\ HeadCodes(last) = last.calls
               /\ \/ last.calls = <<200>>
                     /\ (HasStatus(last, "success") \/ RecordReturned(last))
                  \/ last.calls = <<400>> /\ HasStatus(last, "failure")
                  \/ last.calls = <<500>>
                     /\ (HasStatus(last, "failure") \/ HasStatus(last, "error"))

====
